---------------------------- MODULE Spec2Model ----------------------------
(***************************************************************************)
(* Brooks Glycerin 22 ad image generator: the campaign pipeline of         *)
(* src/test3.py and src/test2.py (class BrooksAdImageGenerator and main)   *)
(* and the stand-alone script src/test.py.                                 *)
(*                                                                         *)
(* Text is a sequence of pieces.  Every character the code treats          *)
(* specially (quote, backslash, line feed, blank, sign, underscore, digit, *)
(* control character) is a piece of its own; a run of ordinary characters  *)
(* may be one piece.  A character outside printable ASCII is the piece     *)
(* "U+XXXX" that names its code point, except tab, line feed, form feed    *)
(* and carriage return, which are the strings "\t", "\n", "\f" and "\r".   *)
(* The character tables are those of Python 3.11 (Unicode 14.0).           *)
(***************************************************************************)
EXTENDS Integers, Sequences, FiniteSets, TLC

VARIABLES
    variant,            \* which program runs: "test3", "test2" or "test"
    api_key,            \* GOOGLE_API_KEY is set in the environment
    pc,                 \* position of the single control thread
    num_images,         \* main: num_images / NUM_IMAGES
    reference_paths,    \* main: reference_paths
    constructed,        \* a BrooksAdImageGenerator exists
    dirs,               \* directories created by os.makedirs
    reference_images,   \* self.reference_images (test3), the paths loaded
    prompt_requirements,\* self.prompt_requirements
    block,              \* last value returned by _assemble_requirements_block
    lastContents,       \* contents of the last text-model request
    i,                  \* loop variable of generate_all_ads
    image_prompt,       \* local of generate_all_ads
    image_path,         \* local of generate_all_ads
    generated_images,   \* local list of generate_all_ads
    clock,              \* wall clock, in the units of time.sleep
    files,              \* image files written by this run
    logFile,            \* generation_log.json in the output directory
    logWrites,          \* calls of _save_generation_log
    textCalls,          \* calls of text_model.generate_content
    imageCalls,         \* calls of client.models.generate_images
    returned,           \* value returned by generate_all_ads
    printed,            \* diagnostics printed so far
    outcomes,           \* history: how the two calls ended for each index
    imageOutcome,       \* history: what the image call of the iteration under way did
    logOutcome,         \* history: what the log write did
    events              \* history: the calls, appends and pauses of generate_all_ads

vars == <<variant, api_key, reference_paths, pc, num_images, constructed, dirs, reference_images,
          prompt_requirements, block, lastContents, i, image_prompt,
          image_path, generated_images, clock, files, logFile, logWrites,
          textCalls, imageCalls, returned, printed, outcomes, imageOutcome, logOutcome,
          events>>

-----------------------------------------------------------------------------
(* Bounds of the model *)

\* largest NUM_AD_IMAGES explored
MaxImages == 2

\* longest requirement list explored for _assemble_requirements_block
MaxReqs == 13

\* largest image index explored for the file name of generate_image
MaxIndex == 100

-----------------------------------------------------------------------------
(* Python values *)

PyNone == [t |-> "none", s |-> <<>>, n |-> 0]
PyStr(text) == [t |-> "str", s |-> text, n |-> 0]
PyInt(k) == [t |-> "int", s |-> <<>>, n |-> k]

LF == "\n"
TAB == "\t"
CR == "\r"
FF == "\f"
BACKSPACE == "U+0008"
QUOTE == "\""
BACKSLASH == "\\"
SPACE == " "

\* the digits an integer is formatted with
Digits == <<"0", "1", "2", "3", "4", "5", "6", "7", "8", "9">>

\* the decimal digits int() reads: the characters of category Nd, one row of
\* ten per script, the digit of value d at place d + 1
DecimalDigits ==
    << Digits,
       <<"U+0660", "U+0661", "U+0662", "U+0663", "U+0664", "U+0665", "U+0666", "U+0667", "U+0668", "U+0669">>,
       <<"U+06F0", "U+06F1", "U+06F2", "U+06F3", "U+06F4", "U+06F5", "U+06F6", "U+06F7", "U+06F8", "U+06F9">>,
       <<"U+07C0", "U+07C1", "U+07C2", "U+07C3", "U+07C4", "U+07C5", "U+07C6", "U+07C7", "U+07C8", "U+07C9">>,
       <<"U+0966", "U+0967", "U+0968", "U+0969", "U+096A", "U+096B", "U+096C", "U+096D", "U+096E", "U+096F">>,
       <<"U+09E6", "U+09E7", "U+09E8", "U+09E9", "U+09EA", "U+09EB", "U+09EC", "U+09ED", "U+09EE", "U+09EF">>,
       <<"U+0A66", "U+0A67", "U+0A68", "U+0A69", "U+0A6A", "U+0A6B", "U+0A6C", "U+0A6D", "U+0A6E", "U+0A6F">>,
       <<"U+0AE6", "U+0AE7", "U+0AE8", "U+0AE9", "U+0AEA", "U+0AEB", "U+0AEC", "U+0AED", "U+0AEE", "U+0AEF">>,
       <<"U+0B66", "U+0B67", "U+0B68", "U+0B69", "U+0B6A", "U+0B6B", "U+0B6C", "U+0B6D", "U+0B6E", "U+0B6F">>,
       <<"U+0BE6", "U+0BE7", "U+0BE8", "U+0BE9", "U+0BEA", "U+0BEB", "U+0BEC", "U+0BED", "U+0BEE", "U+0BEF">>,
       <<"U+0C66", "U+0C67", "U+0C68", "U+0C69", "U+0C6A", "U+0C6B", "U+0C6C", "U+0C6D", "U+0C6E", "U+0C6F">>,
       <<"U+0CE6", "U+0CE7", "U+0CE8", "U+0CE9", "U+0CEA", "U+0CEB", "U+0CEC", "U+0CED", "U+0CEE", "U+0CEF">>,
       <<"U+0D66", "U+0D67", "U+0D68", "U+0D69", "U+0D6A", "U+0D6B", "U+0D6C", "U+0D6D", "U+0D6E", "U+0D6F">>,
       <<"U+0DE6", "U+0DE7", "U+0DE8", "U+0DE9", "U+0DEA", "U+0DEB", "U+0DEC", "U+0DED", "U+0DEE", "U+0DEF">>,
       <<"U+0E50", "U+0E51", "U+0E52", "U+0E53", "U+0E54", "U+0E55", "U+0E56", "U+0E57", "U+0E58", "U+0E59">>,
       <<"U+0ED0", "U+0ED1", "U+0ED2", "U+0ED3", "U+0ED4", "U+0ED5", "U+0ED6", "U+0ED7", "U+0ED8", "U+0ED9">>,
       <<"U+0F20", "U+0F21", "U+0F22", "U+0F23", "U+0F24", "U+0F25", "U+0F26", "U+0F27", "U+0F28", "U+0F29">>,
       <<"U+1040", "U+1041", "U+1042", "U+1043", "U+1044", "U+1045", "U+1046", "U+1047", "U+1048", "U+1049">>,
       <<"U+1090", "U+1091", "U+1092", "U+1093", "U+1094", "U+1095", "U+1096", "U+1097", "U+1098", "U+1099">>,
       <<"U+17E0", "U+17E1", "U+17E2", "U+17E3", "U+17E4", "U+17E5", "U+17E6", "U+17E7", "U+17E8", "U+17E9">>,
       <<"U+1810", "U+1811", "U+1812", "U+1813", "U+1814", "U+1815", "U+1816", "U+1817", "U+1818", "U+1819">>,
       <<"U+1946", "U+1947", "U+1948", "U+1949", "U+194A", "U+194B", "U+194C", "U+194D", "U+194E", "U+194F">>,
       <<"U+19D0", "U+19D1", "U+19D2", "U+19D3", "U+19D4", "U+19D5", "U+19D6", "U+19D7", "U+19D8", "U+19D9">>,
       <<"U+1A80", "U+1A81", "U+1A82", "U+1A83", "U+1A84", "U+1A85", "U+1A86", "U+1A87", "U+1A88", "U+1A89">>,
       <<"U+1A90", "U+1A91", "U+1A92", "U+1A93", "U+1A94", "U+1A95", "U+1A96", "U+1A97", "U+1A98", "U+1A99">>,
       <<"U+1B50", "U+1B51", "U+1B52", "U+1B53", "U+1B54", "U+1B55", "U+1B56", "U+1B57", "U+1B58", "U+1B59">>,
       <<"U+1BB0", "U+1BB1", "U+1BB2", "U+1BB3", "U+1BB4", "U+1BB5", "U+1BB6", "U+1BB7", "U+1BB8", "U+1BB9">>,
       <<"U+1C40", "U+1C41", "U+1C42", "U+1C43", "U+1C44", "U+1C45", "U+1C46", "U+1C47", "U+1C48", "U+1C49">>,
       <<"U+1C50", "U+1C51", "U+1C52", "U+1C53", "U+1C54", "U+1C55", "U+1C56", "U+1C57", "U+1C58", "U+1C59">>,
       <<"U+A620", "U+A621", "U+A622", "U+A623", "U+A624", "U+A625", "U+A626", "U+A627", "U+A628", "U+A629">>,
       <<"U+A8D0", "U+A8D1", "U+A8D2", "U+A8D3", "U+A8D4", "U+A8D5", "U+A8D6", "U+A8D7", "U+A8D8", "U+A8D9">>,
       <<"U+A900", "U+A901", "U+A902", "U+A903", "U+A904", "U+A905", "U+A906", "U+A907", "U+A908", "U+A909">>,
       <<"U+A9D0", "U+A9D1", "U+A9D2", "U+A9D3", "U+A9D4", "U+A9D5", "U+A9D6", "U+A9D7", "U+A9D8", "U+A9D9">>,
       <<"U+A9F0", "U+A9F1", "U+A9F2", "U+A9F3", "U+A9F4", "U+A9F5", "U+A9F6", "U+A9F7", "U+A9F8", "U+A9F9">>,
       <<"U+AA50", "U+AA51", "U+AA52", "U+AA53", "U+AA54", "U+AA55", "U+AA56", "U+AA57", "U+AA58", "U+AA59">>,
       <<"U+ABF0", "U+ABF1", "U+ABF2", "U+ABF3", "U+ABF4", "U+ABF5", "U+ABF6", "U+ABF7", "U+ABF8", "U+ABF9">>,
       <<"U+FF10", "U+FF11", "U+FF12", "U+FF13", "U+FF14", "U+FF15", "U+FF16", "U+FF17", "U+FF18", "U+FF19">>,
       <<"U+104A0", "U+104A1", "U+104A2", "U+104A3", "U+104A4", "U+104A5", "U+104A6", "U+104A7", "U+104A8", "U+104A9">>,
       <<"U+10D30", "U+10D31", "U+10D32", "U+10D33", "U+10D34", "U+10D35", "U+10D36", "U+10D37", "U+10D38", "U+10D39">>,
       <<"U+11066", "U+11067", "U+11068", "U+11069", "U+1106A", "U+1106B", "U+1106C", "U+1106D", "U+1106E", "U+1106F">>,
       <<"U+110F0", "U+110F1", "U+110F2", "U+110F3", "U+110F4", "U+110F5", "U+110F6", "U+110F7", "U+110F8", "U+110F9">>,
       <<"U+11136", "U+11137", "U+11138", "U+11139", "U+1113A", "U+1113B", "U+1113C", "U+1113D", "U+1113E", "U+1113F">>,
       <<"U+111D0", "U+111D1", "U+111D2", "U+111D3", "U+111D4", "U+111D5", "U+111D6", "U+111D7", "U+111D8", "U+111D9">>,
       <<"U+112F0", "U+112F1", "U+112F2", "U+112F3", "U+112F4", "U+112F5", "U+112F6", "U+112F7", "U+112F8", "U+112F9">>,
       <<"U+11450", "U+11451", "U+11452", "U+11453", "U+11454", "U+11455", "U+11456", "U+11457", "U+11458", "U+11459">>,
       <<"U+114D0", "U+114D1", "U+114D2", "U+114D3", "U+114D4", "U+114D5", "U+114D6", "U+114D7", "U+114D8", "U+114D9">>,
       <<"U+11650", "U+11651", "U+11652", "U+11653", "U+11654", "U+11655", "U+11656", "U+11657", "U+11658", "U+11659">>,
       <<"U+116C0", "U+116C1", "U+116C2", "U+116C3", "U+116C4", "U+116C5", "U+116C6", "U+116C7", "U+116C8", "U+116C9">>,
       <<"U+11730", "U+11731", "U+11732", "U+11733", "U+11734", "U+11735", "U+11736", "U+11737", "U+11738", "U+11739">>,
       <<"U+118E0", "U+118E1", "U+118E2", "U+118E3", "U+118E4", "U+118E5", "U+118E6", "U+118E7", "U+118E8", "U+118E9">>,
       <<"U+11950", "U+11951", "U+11952", "U+11953", "U+11954", "U+11955", "U+11956", "U+11957", "U+11958", "U+11959">>,
       <<"U+11C50", "U+11C51", "U+11C52", "U+11C53", "U+11C54", "U+11C55", "U+11C56", "U+11C57", "U+11C58", "U+11C59">>,
       <<"U+11D50", "U+11D51", "U+11D52", "U+11D53", "U+11D54", "U+11D55", "U+11D56", "U+11D57", "U+11D58", "U+11D59">>,
       <<"U+11DA0", "U+11DA1", "U+11DA2", "U+11DA3", "U+11DA4", "U+11DA5", "U+11DA6", "U+11DA7", "U+11DA8", "U+11DA9">>,
       <<"U+16A60", "U+16A61", "U+16A62", "U+16A63", "U+16A64", "U+16A65", "U+16A66", "U+16A67", "U+16A68", "U+16A69">>,
       <<"U+16AC0", "U+16AC1", "U+16AC2", "U+16AC3", "U+16AC4", "U+16AC5", "U+16AC6", "U+16AC7", "U+16AC8", "U+16AC9">>,
       <<"U+16B50", "U+16B51", "U+16B52", "U+16B53", "U+16B54", "U+16B55", "U+16B56", "U+16B57", "U+16B58", "U+16B59">>,
       <<"U+1D7CE", "U+1D7CF", "U+1D7D0", "U+1D7D1", "U+1D7D2", "U+1D7D3", "U+1D7D4", "U+1D7D5", "U+1D7D6", "U+1D7D7">>,
       <<"U+1D7D8", "U+1D7D9", "U+1D7DA", "U+1D7DB", "U+1D7DC", "U+1D7DD", "U+1D7DE", "U+1D7DF", "U+1D7E0", "U+1D7E1">>,
       <<"U+1D7E2", "U+1D7E3", "U+1D7E4", "U+1D7E5", "U+1D7E6", "U+1D7E7", "U+1D7E8", "U+1D7E9", "U+1D7EA", "U+1D7EB">>,
       <<"U+1D7EC", "U+1D7ED", "U+1D7EE", "U+1D7EF", "U+1D7F0", "U+1D7F1", "U+1D7F2", "U+1D7F3", "U+1D7F4", "U+1D7F5">>,
       <<"U+1D7F6", "U+1D7F7", "U+1D7F8", "U+1D7F9", "U+1D7FA", "U+1D7FB", "U+1D7FC", "U+1D7FD", "U+1D7FE", "U+1D7FF">>,
       <<"U+1E140", "U+1E141", "U+1E142", "U+1E143", "U+1E144", "U+1E145", "U+1E146", "U+1E147", "U+1E148", "U+1E149">>,
       <<"U+1E2F0", "U+1E2F1", "U+1E2F2", "U+1E2F3", "U+1E2F4", "U+1E2F5", "U+1E2F6", "U+1E2F7", "U+1E2F8", "U+1E2F9">>,
       <<"U+1E950", "U+1E951", "U+1E952", "U+1E953", "U+1E954", "U+1E955", "U+1E956", "U+1E957", "U+1E958", "U+1E959">>,
       <<"U+1FBF0", "U+1FBF1", "U+1FBF2", "U+1FBF3", "U+1FBF4", "U+1FBF5", "U+1FBF6", "U+1FBF7", "U+1FBF8", "U+1FBF9">> >>

IsDigit(c) == \E r \in 1..Len(DecimalDigits) : \E d \in 1..10 : DecimalDigits[r][d] = c

DigitValue(c) ==
    (CHOOSE d \in 1..10 : \E r \in 1..Len(DecimalDigits) : DecimalDigits[r][d] = c) - 1

\* str(k) / f"{k}" for k >= 0
RECURSIVE Str(_)
Str(k) == IF k < 10 THEN <<Digits[k + 1]>>
          ELSE Str(k \div 10) \o <<Digits[(k % 10) + 1]>>

\* Pad2 with a fault: f"{k}", no padding
Pad2WithoutPadding(k) == Str(k)

\* f"{k:02d}" for k >= 0
Pad2(k) == IF k < 10 THEN <<"0">> \o Str(k) ELSE Str(k)

RECURSIVE Concat(_)
Concat(seqs) == IF seqs = <<>> THEN <<>> ELSE Head(seqs) \o Concat(Tail(seqs))

\* sep.join(parts)
RECURSIVE Join(_, _)
Join(sep, parts) ==
    IF parts = <<>> THEN <<>>
    ELSE IF Len(parts) = 1 THEN parts[1]
    ELSE parts[1] \o sep \o Join(sep, Tail(parts))

\* the characters str.strip() removes: those for which str.isspace() holds
Whitespace ==
    {TAB, LF, "U+000B", FF, CR, "U+001C", "U+001D", "U+001E", "U+001F", SPACE, "U+0085",
     "U+00A0", "U+1680", "U+2000", "U+2001", "U+2002", "U+2003", "U+2004", "U+2005",
     "U+2006", "U+2007", "U+2008", "U+2009", "U+200A", "U+2028", "U+2029", "U+202F",
     "U+205F", "U+3000"}

IsWhitespace(c) == c \in Whitespace

RECURSIVE LStrip(_)
LStrip(text) == IF text # <<>> /\ IsWhitespace(Head(text)) THEN LStrip(Tail(text))
                ELSE text

RECURSIVE RStrip(_)
RStrip(text) == IF text # <<>> /\ IsWhitespace(text[Len(text)])
                THEN RStrip(SubSeq(text, 1, Len(text) - 1))
                ELSE text

\* str.strip()
Strip(text) == RStrip(LStrip(text))


\* the blanks int() skips around a numeral: the characters of str.isspace()
\* but for the four separators U+001C..U+001F
IntWhitespace == Whitespace \ {"U+001C", "U+001D", "U+001E", "U+001F"}

RECURSIVE IntLStrip(_)
IntLStrip(text) == IF text # <<>> /\ Head(text) \in IntWhitespace THEN IntLStrip(Tail(text))
                   ELSE text

RECURSIVE IntRStrip(_)
IntRStrip(text) == IF text # <<>> /\ text[Len(text)] \in IntWhitespace
                   THEN IntRStrip(SubSeq(text, 1, Len(text) - 1))
                   ELSE text

\* int(): the text between the blanks
IntTrimmed(text) == IntRStrip(IntLStrip(text))

\* int(): the trimmed text begins with a sign
HasSign(text) == text # <<>> /\ Head(text) \in {"+", "-"}

\* int(): the text after the optional sign
IntBody(text) == IF HasSign(IntTrimmed(text)) THEN Tail(IntTrimmed(text))
                 ELSE IntTrimmed(text)

\* int(): decimal digits, with single underscores between two digits
IsDigitRun(body) ==
    /\ body # <<>>
    /\ \A p \in 1..Len(body) :
         \/ IsDigit(body[p])
         \/ /\ body[p] = "_"
            /\ p > 1
            /\ p < Len(body)
            /\ IsDigit(body[p - 1])
            /\ IsDigit(body[p + 1])

\* sys.get_int_max_str_digits(): the most digits int() converts
MaxStrDigits == 4300

\* int(): the number of digits of the text, underscores not counted
DigitCount(body) == Cardinality({p \in 1..Len(body) : body[p] # "_"})

\* int(text) returns; otherwise it raises ValueError
IsNumeral(text) == IsDigitRun(IntBody(text)) /\ DigitCount(IntBody(text)) <= MaxStrDigits

\* the value of a run of digits and underscores
RECURSIVE DigitRunValue(_)
DigitRunValue(body) ==
    IF body = <<>> THEN 0
    ELSE IF body[Len(body)] = "_" THEN DigitRunValue(SubSeq(body, 1, Len(body) - 1))
    ELSE 10 * DigitRunValue(SubSeq(body, 1, Len(body) - 1)) + DigitValue(body[Len(body)])

\* the digits of value zero, one of each script
ZeroDigits == {DecimalDigits[r][1] : r \in 1..Len(DecimalDigits)}

\* the run from its first digit that is not a zero: the leading zeros and
\* underscores add nothing to the value
Significant(body) ==
    LET nonzero == {p \in 1..Len(body) : body[p] \notin ZeroDigits \cup {"_"}}
    IN IF nonzero = {} THEN <<>>
       ELSE SubSeq(body, CHOOSE p \in nonzero : \A q \in nonzero : p <= q, Len(body))

\* int(text) for a text it accepts
IntOf(text) == IF HasSign(IntTrimmed(text)) /\ Head(IntTrimmed(text)) = "-"
               THEN 0 - DigitRunValue(Significant(IntBody(text)))
               ELSE DigitRunValue(Significant(IntBody(text)))

-----------------------------------------------------------------------------
(* Program constants *)

Variants == {"test3", "test2", "test"}

\* output_dir passed by main / set by the script
OutputDir(v) == IF v = "test" THEN <<"image/generated_ads">>
                ELSE <<"brooks_glycerin_22_campaign">>

\* main: defaults of REF_IMAGE_1 and REF_IMAGE_2
RefImageDefaults == << <<"beach_mock.png">>, <<"bench_mock.png">> >>

\* os.getenv(name, default)
GetEnv(val, default) == IF val.set THEN val.v ELSE default

\* main: reference_paths from REF_IMAGE_1 and REF_IMAGE_2 (test2 passes no
\* reference paths)
ReferencePaths(v, ref1, ref2) ==
    IF v = "test3" THEN <<GetEnv(ref1, RefImageDefaults[1]), GetEnv(ref2, RefImageDefaults[2])>>
    ELSE <<>>

\* main: default of NUM_AD_IMAGES
DefaultNumImages(v) == IF v = "test3" THEN <<"3">> ELSE <<"1", "0", "0">>

\* self.creative_brief, one piece
CreativeBrief == <<"creative_brief">>

\* visual_instruction of test3's generate_image_prompt, one piece
VisualInstruction == <<"visual_instruction">>

\* self.prompt_requirements; each sentence is one piece.  test2's list lacks the
\* comma after its tenth sentence, so Python joins the tenth and eleventh literals
\* into one entry and the list has 11 entries.
InitialRequirements(v) ==
    IF v = "test3"
    THEN << <<"fresh concept">>, <<"close-up hero">>, <<"brand tone">>, <<"time, location">>,
            <<"diverse runner">>, <<"composition cues">>, <<"camera viewpoint">>,
            <<"lighting mood">>, <<"subtle identifiers">>, <<"overlay brand">>,
            <<"kinetic cues">>, <<"technical feature">>, <<"negative prompt">> >>
    ELSE << <<"fresh concept">>, <<"depict product">>, <<"brand tone">>, <<"time, location">>,
            <<"composition cues">>, <<"camera viewpoint">>, <<"lighting mood">>,
            <<"subtle identifiers">>, <<"overlay brand">>,
            <<"choose atmosphere", "technical feature">>, <<"negative prompt">> >>

\* the fixed string generate_image_prompt returns when the text call fails; test2
\* writes a non-breaking hyphen (U+2011) after "High"
FallbackPrompt(v) ==
    IF v = "test3"
    THEN <<"High-quality ad photo of Brooks Glycerin 22 shoe with modern brand overlay, bold tagline, and energetic atmosphere.">>
    ELSE <<"High", "U+2011", "quality advertising photo of Brooks Glycerin 22 running shoe, dynamic composition, dramatic lighting, modern aesthetics">>

\* time.sleep(3)
SleepSeconds == 3

-----------------------------------------------------------------------------
(* Pure functions of the generator *)

\* RequirementLine with a fault: f"{i}. {req}", numbering from 0
RequirementLineFromZero(p, req) == Str(p - 1) \o <<".", SPACE>> \o req

\* f"{i + 1}. {req}" for the entry at 0-based index i = p - 1
RequirementLine(p, req) == Str(p) \o <<".", SPACE>> \o req

\* "\n".join(f"{i + 1}. {req}" for i, req in enumerate(self.prompt_requirements))
AssembleRequirementsBlock(reqs) ==
    Join(<<LF>>, [p \in 1..Len(reqs) |-> RequirementLine(p, reqs[p])])

\* the f-string prompt_request of generate_image_prompt.  test3 interpolates
\* visual_instruction unconditionally; test2 has no such section.
PromptRequest(v, reqs, image_number) ==
    <<LF, "Based on this creative brief">> \o CreativeBrief \o <<LF>>
    \o (IF v = "test3" THEN VisualInstruction \o <<LF>> ELSE <<>>)
    \o <<"prompt for ad image #">> \o Str(image_number) \o <<LF, "Requirements:", LF>>
    \o AssembleRequirementsBlock(reqs)
    \o <<LF, "Return only the image prompt", LF>>

ImagePart(path) == [kind |-> "image", v |-> path]
TextPart(text) == [kind |-> "text", v |-> text]

\* contents = self.reference_images + [prompt_request]
Contents(v, refs, reqs, image_number) ==
    [p \in 1..Len(refs) |-> ImagePart(refs[p])]
    \o <<TextPart(PromptRequest(v, reqs, image_number))>>

\* os.path.join(self.output_dir, f"brooks_glycerin_22_ad_{image_number:02d}.png")
FilePath(v, image_number) ==
    OutputDir(v) \o <<"/", "brooks_glycerin_22_ad_">> \o Pad2(image_number) \o <<".png">>

\* time.strftime("%Y-%m-%d %H:%M:%S") at instant t: the text of the instant
StrfTime(t) == <<"@">> \o Str(t)

-----------------------------------------------------------------------------
(* json.dump(..., ensure_ascii=False), value by value.  The                   *)
(* document's braces, commas and indentation are kept as record structure.    *)

\* the control characters U+0000 .. U+001F, the character of code k at place k + 1
ControlChars ==
    <<"U+0000", "U+0001", "U+0002", "U+0003", "U+0004", "U+0005", "U+0006", "U+0007",
      "U+0008", TAB, LF, "U+000B", FF, CR, "U+000E", "U+000F", "U+0010", "U+0011",
      "U+0012", "U+0013", "U+0014", "U+0015", "U+0016", "U+0017", "U+0018", "U+0019",
      "U+001A", "U+001B", "U+001C", "U+001D", "U+001E", "U+001F">>

IsControl(c) == \E k \in 1..Len(ControlChars) : ControlChars[k] = c

ControlCode(c) == (CHOOSE k \in 1..Len(ControlChars) : ControlChars[k] = c) - 1

HexDigits == <<"0", "1", "2", "3", "4", "5", "6", "7", "8", "9", "a", "b", "c", "d", "e", "f">>

\* '\\u{0:04x}'.format(code) for a code below 32
UnicodeEscape(code) ==
    <<BACKSLASH, "u", "0", "0", HexDigits[(code \div 16) + 1], HexDigits[(code % 16) + 1]>>

\* EscapeChar with a fault: a backslash is left as it is
EscapeCharKeepingBackslash(c) ==
    IF c = QUOTE THEN <<BACKSLASH, QUOTE>>
    ELSE IF c = LF THEN <<BACKSLASH, "n">>
    ELSE IF c = CR THEN <<BACKSLASH, "r">>
    ELSE IF c = TAB THEN <<BACKSLASH, "t">>
    ELSE IF c = FF THEN <<BACKSLASH, "f">>
    ELSE IF c = BACKSPACE THEN <<BACKSLASH, "b">>
    ELSE IF IsControl(c) THEN UnicodeEscape(ControlCode(c))
    ELSE <<c>>

\* the JSON string escape of one piece: quote, backslash and the control
\* characters are escaped, every other character is written as it is
EscapeChar(c) ==
    IF c = QUOTE THEN <<BACKSLASH, QUOTE>>
    ELSE IF c = BACKSLASH THEN <<BACKSLASH, BACKSLASH>>
    ELSE IF c = LF THEN <<BACKSLASH, "n">>
    ELSE IF c = CR THEN <<BACKSLASH, "r">>
    ELSE IF c = TAB THEN <<BACKSLASH, "t">>
    ELSE IF c = FF THEN <<BACKSLASH, "f">>
    ELSE IF c = BACKSPACE THEN <<BACKSLASH, "b">>
    ELSE IF IsControl(c) THEN UnicodeEscape(ControlCode(c))
    ELSE <<c>>

JsonEncodeString(text) ==
    <<QUOTE>> \o Concat([p \in 1..Len(text) |-> EscapeChar(text[p])]) \o <<QUOTE>>

\* json.dumps of a scalar: None -> null, int -> numeral, str -> quoted string
JsonDumps(val) == IF val.t = "none" THEN <<"null">>
                  ELSE IF val.t = "int" THEN Str(val.n)
                  ELSE JsonEncodeString(val.s)

\* one entry of generated_images as json.dump writes it
DumpItem(item) == [image_number |-> JsonDumps(item.image_number),
                   prompt       |-> JsonDumps(item.prompt),
                   image_path   |-> JsonDumps(item.image_path),
                   generated_at |-> JsonDumps(item.generated_at)]

\* the document _save_generation_log dumps for images_info at instant t
DumpLog(images_info, t) ==
    [campaign     |-> JsonDumps(PyStr(<<"Brooks Glycerin 22 Ad Campaign">>)),
     generated_at |-> JsonDumps(PyStr(StrfTime(t))),
     total_images |-> JsonDumps(PyInt(Len(images_info))),
     images       |-> [p \in 1..Len(images_info) |-> DumpItem(images_info[p])]]

NoDoc == [campaign |-> <<>>, generated_at |-> <<>>, total_images |-> <<>>, images |-> <<>>]

\* generation_log.json: absent, cut short by a failed dump, or complete
LogAbsent == [status |-> "absent", doc |-> NoDoc]
LogPartial == [status |-> "partial", doc |-> NoDoc]
LogComplete(doc) == [status |-> "complete", doc |-> doc]

-----------------------------------------------------------------------------
(* Inputs from the environment and the external services *)

Unset == [set |-> FALSE, v |-> <<>>]
EnvValue(text) == [set |-> TRUE, v |-> text]

\* values of NUM_AD_IMAGES explored: unset, the numerals 0..MaxImages, numerals
\* with a sign, with blanks around, with an underscore, with leading zeros and
\* in another script, and texts int() refuses
NumEnvValues ==
    {Unset}
    \cup {EnvValue(Str(k)) : k \in 0..MaxImages}
    \cup {EnvValue(<<"-", "1">>), EnvValue(<<"+", "1">>), EnvValue(<<"-", "0">>),
          EnvValue(<<SPACE, "2", TAB, LF>>), EnvValue(<<"U+00A0", "1", "U+3000">>),
          EnvValue(<<"0", "_", "1">>), EnvValue(<<"0", "0", "2">>),
          EnvValue(<<"U+0662">>), EnvValue(<<"U+FF10", "1">>)}
    \cup {EnvValue(<<>>), EnvValue(<<"x">>), EnvValue(<<"2", ".", "0">>),
          EnvValue(<<"1", "_">>), EnvValue(<<"_", "1">>), EnvValue(<<"1", "_", "_", "1">>),
          EnvValue(<<"-", SPACE, "1">>), EnvValue(<<"+", "-", "1">>),
          EnvValue(<<"U+001C", "1">>), EnvValue(<<"1", SPACE, "1">>)}

\* values of REF_IMAGE_1 and REF_IMAGE_2 explored: unset, or another file
RefEnvValues == {Unset, EnvValue(<<"other_ref.png">>)}

\* response.text values the text model may return
TextResponses ==
    { <<TAB, SPACE, "U+00A0", QUOTE, "a", BACKSLASH, LF, TAB, CR, BACKSPACE, "U+001B",
        "U+2011", "b", SPACE, "U+001F", CR, LF>> }

\* what text_model.generate_content / response.text may do
TextOutcomes == {[raises |-> FALSE, text |-> r] : r \in TextResponses}
                \cup {[raises |-> TRUE, text |-> <<>>]}

\* what the body of generate_image's try block may do: save an image, get an
\* empty or missing result, or raise in the call, in decoding or in saving
ImageOutcomes == {"saved", "empty", "raise_call", "raise_decode", "raise_save"}

\* the statements of generate_image's try block that threw
ThrownImageFailures == {"raise_call", "raise_decode", "raise_save"}

\* how a call of generate_image ended: an image saved, an empty result, or an
\* exception thrown by some statement of the try block
HowEnded(outcome) == IF outcome \in ThrownImageFailures THEN "raised" ELSE outcome

\* the subsequences of paths that Image.open may manage to load, in order
LoadableSubsequences(paths) ==
    IF paths = <<>> THEN {<<>>}
    ELSE {<<>>, <<paths[1]>>, <<paths[2]>>, paths}

NoReturn == [set |-> FALSE, v |-> <<>>]
ReturnValue(val) == [set |-> TRUE, v |-> val]

Running == {"main", "construct", "prompt", "image", "append", "sleep", "save",
            "return", "raising", "script", "script_read", "script_generate"}

\* len(range(1, total + 1)): the number of iterations, none for a total below 1
RangeLen(total) == IF total >= 1 THEN total ELSE 0

\* LoopTest with a fault: range(1, num_images), one iteration short
LoopTestOneShort(idx, total) == IF idx < total THEN "prompt" ELSE "save"

\* for i in range(1, num_images + 1): the position after the loop test
LoopTest(idx, total) == IF idx <= total THEN "prompt" ELSE "save"

-----------------------------------------------------------------------------
(* Initial state: a fresh process in an environment with or without the key *)

InitCommon ==
    /\ num_images = 0
    /\ reference_paths = <<>>
    /\ constructed = FALSE
    /\ dirs = {}
    /\ reference_images = <<>>
    /\ block = <<>>
    /\ lastContents = <<>>
    /\ i = 0
    /\ image_prompt = <<>>
    /\ image_path = PyNone
    /\ generated_images = <<>>
    /\ clock = 0
    /\ files = {}
    /\ logFile = LogAbsent
    /\ logWrites = 0
    /\ textCalls = 0
    /\ imageCalls = 0
    /\ returned = NoReturn
    /\ printed = {}
    /\ outcomes = <<>>
    /\ imageOutcome = "none"
    /\ logOutcome = "none"
    /\ events = <<>>

Init ==
    /\ variant \in Variants
    /\ api_key \in BOOLEAN
    /\ pc = IF variant = "test" THEN "script" ELSE "main"
    /\ prompt_requirements = <<>>
    /\ InitCommon

-----------------------------------------------------------------------------
(* Results of the generator's methods *)

\* main: if not api_key
KeyMissing(key) == ~key

\* PromptResult with a fault: the except branch returns the (empty) response text
PromptResultWithoutFallback(v, outcome) == Strip(outcome.text)

\* generate_image_prompt: response.text.strip(), or the fallback in the except branch
PromptResult(v, outcome) ==
    IF outcome.raises THEN FallbackPrompt(v) ELSE Strip(outcome.text)

\* CaughtByGenerateImage with a fault: the try block ends after the call
CaughtOnlyAroundCall(outcome) == outcome \notin {"raise_decode", "raise_save"}

\* generate_image: the except clause encloses the whole body, so every failure of
\* the call, of decoding and of saving is caught
CaughtByGenerateImage(outcome) == TRUE

\* ImageResult with a fault: no test of generated_images, an empty result returns the path
ImageResultWithoutEmptyTest(v, outcome, image_number) ==
    IF outcome \in {"saved", "empty"} THEN PyStr(FilePath(v, image_number)) ELSE PyNone

\* generate_image: filepath after a save, None on an empty result or a failure
ImageResult(v, outcome, image_number) ==
    IF outcome = "saved" THEN PyStr(FilePath(v, image_number)) ELSE PyNone

\* generate_image: Image.open(BytesIO(img_bytes)).save(filepath)
FilesAfter(fs, v, outcome, image_number) ==
    IF outcome = "saved" THEN fs \cup {FilePath(v, image_number)} ELSE fs

\* one entry of the history of generate_all_ads: a call of generate_image_prompt
\* (with the prompt it returned), a call of generate_image (with the prompt it
\* was given), an append (with the prompt of the item) or a pause
Event(kind, idx, prompt, t, duration) ==
    [kind |-> kind, index |-> idx, prompt |-> prompt, at |-> t, duration |-> duration]

\* the dict generate_all_ads appends
NewItem(idx, prompt, path, t) ==
    [image_number |-> PyInt(idx),
     prompt       |-> PyStr(prompt),
     image_path   |-> path,
     generated_at |-> PyStr(StrfTime(t))]

-----------------------------------------------------------------------------
(* main of test3.py and test2.py *)

\* load_dotenv() .. reference_paths = [...]: the missing-key return, the
\* ValueError of int() leaving main, or on to the constructor with num_images
\* and the reference paths read from the environment
MainEnv ==
    /\ pc = "main"
    /\ IF KeyMissing(api_key)
       THEN /\ printed' = printed \cup {"key_missing"}
            /\ pc' = "returned"
            /\ UNCHANGED <<num_images, reference_paths>>
       ELSE \E val \in NumEnvValues :
              LET text == GetEnv(val, DefaultNumImages(variant)) IN
              IF ~IsNumeral(text)
              THEN /\ pc' = "raised"
                   /\ UNCHANGED <<num_images, reference_paths, printed>>
              ELSE /\ IntOf(text) <= MaxImages
                   /\ num_images' = IntOf(text)
                   /\ \E ref1 \in RefEnvValues : \E ref2 \in RefEnvValues :
                        reference_paths' = ReferencePaths(variant, ref1, ref2)
                   /\ pc' = "construct"
                   /\ UNCHANGED printed
    /\ UNCHANGED <<events, outcomes, logOutcome, imageOutcome, variant, api_key, constructed, dirs, reference_images,
                   prompt_requirements, block, lastContents, i, image_prompt,
                   image_path, generated_images, clock, files, logFile, logWrites,
                   textCalls, imageCalls, returned>>

\* what the constructor may do: os.makedirs raises, the construction of the
\* clients (genai.Client, legacy_genai.configure, GenerativeModel) raises, or
\* the generator is made
ConstructOutcomes == {"makedirs_raises", "client_raises", "made"}

\* test3 creates the directory and loads the references before it constructs
\* the clients; test2 constructs the clients first
DirectoryMadeFirst(v) == v = "test3"

\* the diagnostics of the reference loading: one per path that did not load,
\* and the text-only notice when none is loaded
LoadDiagnostics(v, paths, loaded) ==
    (IF Len(loaded) < Len(paths) THEN {"reference_not_loaded"} ELSE {})
    \cup (IF v = "test3" /\ loaded = <<>> THEN {"text_only"} ELSE {})

\* BrooksAdImageGenerator.__init__ followed by the entry of generate_all_ads
\* (generated_images = [], first loop test).  An exception of the constructor
\* leaves main and no generator exists; when the clients raise in test3 the
\* directory is already made and the loading diagnostics are already printed.
\* Each reference path loads or is skipped with a warning.
Construct ==
    /\ pc = "construct"
    /\ \E how \in ConstructOutcomes :
         \E loaded \in LoadableSubsequences(reference_paths) :
           IF how = "made"
           THEN /\ dirs' = dirs \cup {OutputDir(variant)}
                /\ reference_images' = loaded
                /\ printed' = printed \cup LoadDiagnostics(variant, reference_paths, loaded)
                /\ prompt_requirements' = InitialRequirements(variant)
                /\ constructed' = TRUE
                /\ generated_images' = <<>>
                /\ i' = 1
                /\ pc' = LoopTest(1, num_images)
           ELSE IF how = "client_raises" /\ DirectoryMadeFirst(variant)
           THEN /\ dirs' = dirs \cup {OutputDir(variant)}
                /\ printed' = printed \cup LoadDiagnostics(variant, reference_paths, loaded)
                /\ pc' = "raised"
                /\ UNCHANGED <<constructed, reference_images, prompt_requirements,
                               i, generated_images>>
           ELSE /\ pc' = "raised"
                /\ UNCHANGED <<constructed, dirs, reference_images, prompt_requirements,
                               i, generated_images, printed>>
    /\ UNCHANGED <<events, outcomes, logOutcome, imageOutcome, variant, api_key, reference_paths, num_images, block, lastContents, image_prompt,
                   image_path, clock, files, logFile, logWrites, textCalls,
                   imageCalls, returned>>

-----------------------------------------------------------------------------
(* generate_all_ads, one iteration *)

\* image_prompt = self.generate_image_prompt(i)
GenerateImagePrompt ==
    /\ pc = "prompt"
    /\ block' = AssembleRequirementsBlock(prompt_requirements)
    /\ lastContents' = Contents(variant, reference_images, prompt_requirements, i)
    /\ textCalls' = textCalls + 1
    /\ \E outcome \in TextOutcomes :
         /\ image_prompt' = PromptResult(variant, outcome)
         /\ outcomes' = Append(outcomes, [text |-> IF outcome.raises THEN "raised" ELSE "returned",
                                          image |-> "pending"])
         /\ printed' = IF outcome.raises THEN printed \cup {"prompt_error"} ELSE printed
    /\ events' = Append(events, Event("prompt_call", i, image_prompt', clock, 0))
    /\ pc' = "image"
    /\ UNCHANGED <<logOutcome, imageOutcome, variant, api_key, reference_paths, num_images, constructed, dirs, reference_images,
                   prompt_requirements, i, image_path, generated_images, clock, files,
                   logFile, logWrites, imageCalls, returned>>

\* image_path = self.generate_image(image_prompt, i)
GenerateImage ==
    /\ pc = "image"
    /\ imageCalls' = imageCalls + 1
    /\ events' = Append(events, Event("image_call", i, image_prompt, clock, 0))
    /\ \E outcome \in ImageOutcomes :
         /\ imageOutcome' = outcome
         /\ outcomes' = [outcomes EXCEPT ![Len(outcomes)].image = HowEnded(outcome)]
         /\ IF CaughtByGenerateImage(outcome)
            THEN /\ image_path' = ImageResult(variant, outcome, i)
                 /\ files' = FilesAfter(files, variant, outcome, i)
                 /\ printed' = printed
                        \cup (IF outcome = "empty" THEN {"no_images"} ELSE {})
                        \cup (IF outcome \in ThrownImageFailures
                              THEN {"image_error"} ELSE {})
                 /\ pc' = "append"
            ELSE /\ pc' = "raising"
                 /\ UNCHANGED <<image_path, files, printed>>
    /\ UNCHANGED <<logOutcome, variant, api_key, reference_paths, num_images, constructed, dirs, reference_images,
                   prompt_requirements, block, lastContents, i, image_prompt,
                   generated_images, clock, logFile, logWrites, textCalls, returned>>

\* AppendItem with a fault: the log is rewritten after every append
AppendItemWritingLog ==
    /\ pc = "append"
    /\ generated_images' = Append(generated_images, NewItem(i, image_prompt, image_path, clock))
    /\ logFile' = LogComplete(DumpLog(generated_images', clock))
    /\ events' = Append(events, Event("append", i, generated_images'[Len(generated_images')].prompt.s, clock, 0))
    /\ pc' = "sleep"
    /\ UNCHANGED <<outcomes, logOutcome, imageOutcome, variant, api_key, reference_paths, num_images, constructed, dirs,
                   reference_images, prompt_requirements, block, lastContents, i,
                   image_prompt, image_path, clock, files, logWrites, textCalls,
                   imageCalls, returned, printed>>

\* generated_images.append({...})
AppendItem ==
    /\ pc = "append"
    /\ generated_images' = Append(generated_images, NewItem(i, image_prompt, image_path, clock))
    /\ events' = Append(events, Event("append", i, generated_images'[Len(generated_images')].prompt.s, clock, 0))
    /\ pc' = "sleep"
    /\ UNCHANGED <<outcomes, logOutcome, imageOutcome, variant, api_key, reference_paths, num_images, constructed, dirs, reference_images,
                   prompt_requirements, block, lastContents, i, image_prompt, image_path,
                   clock, files, logFile, logWrites, textCalls, imageCalls, returned,
                   printed>>

\* Sleep with a fault: the pause is taken only when another iteration follows
SleepOnlyBeforeNextIteration ==
    /\ pc = "sleep"
    /\ clock' = IF i < num_images THEN clock + SleepSeconds ELSE clock
    /\ events' = IF i < num_images
                 THEN Append(events, Event("sleep", i, <<>>, clock, clock' - clock))
                 ELSE events
    /\ i' = i + 1
    /\ imageOutcome' = "none"
    /\ pc' = LoopTest(i + 1, num_images)
    /\ UNCHANGED <<outcomes, logOutcome, variant, api_key, reference_paths, num_images, constructed, dirs,
                   reference_images, prompt_requirements, block, lastContents,
                   image_prompt, image_path, generated_images, files, logFile,
                   logWrites, textCalls, imageCalls, returned, printed>>

\* time.sleep(3), then the next loop test
Sleep ==
    /\ pc = "sleep"
    /\ clock' = clock + SleepSeconds
    /\ events' = Append(events, Event("sleep", i, <<>>, clock, clock' - clock))
    /\ i' = i + 1
    /\ imageOutcome' = "none"
    /\ pc' = LoopTest(i + 1, num_images)
    /\ UNCHANGED <<outcomes, logOutcome, variant, api_key, reference_paths, num_images, constructed, dirs, reference_images,
                   prompt_requirements, block, lastContents, image_prompt, image_path,
                   generated_images, files, logFile, logWrites, textCalls, imageCalls,
                   returned, printed>>

-----------------------------------------------------------------------------
(* The end of generate_all_ads *)

\* what open(log_path, "w") and json.dump may do: write the whole document, fail
\* to open the file, or fail after the file was opened and cut short
LogOutcomes == {"written", "open_fails", "dump_fails"}

\* generation_log.json after a call of _save_generation_log
LogAfter(file, outcome, images_info, t) ==
    IF outcome = "written" THEN LogComplete(DumpLog(images_info, t))
    ELSE IF outcome = "dump_fails" THEN LogPartial
    ELSE file

\* self._save_generation_log(generated_images): not in any try of generate_all_ads,
\* so a failure leaves generate_all_ads
SaveGenerationLog ==
    /\ pc = "save"
    /\ logWrites' = logWrites + 1
    /\ \E outcome \in LogOutcomes :
         /\ logFile' = LogAfter(logFile, outcome, generated_images, clock)
         /\ logOutcome' = outcome
         /\ IF outcome = "written"
            THEN /\ printed' = printed \cup {"log_saved"}
                 /\ pc' = "return"
            ELSE /\ pc' = "raising"
                 /\ UNCHANGED printed
    /\ UNCHANGED <<events, outcomes, imageOutcome, variant, api_key, reference_paths, num_images, constructed, dirs, reference_images,
                   prompt_requirements, block, lastContents, i, image_prompt, image_path,
                   generated_images, clock, files, textCalls, imageCalls, returned>>

\* return generated_images, and main ends
ReturnAll ==
    /\ pc = "return"
    /\ returned' = ReturnValue(generated_images)
    /\ pc' = "returned"
    /\ UNCHANGED <<events, outcomes, logOutcome, imageOutcome, variant, api_key, reference_paths, num_images, constructed, dirs, reference_images,
                   prompt_requirements, block, lastContents, i, image_prompt, image_path,
                   generated_images, clock, files, logFile, logWrites, textCalls,
                   imageCalls, printed>>

\* MainCatch with a fault: main answers the failure by calling the Log Writer again
MainCatchRetrying ==
    /\ pc = "raising"
    /\ printed' = printed \cup {"fatal"}
    /\ pc' = "save"
    /\ UNCHANGED <<events, outcomes, logOutcome, imageOutcome, variant, api_key, reference_paths, num_images, constructed, dirs,
                   reference_images, prompt_requirements, block, lastContents, i,
                   image_prompt, image_path, generated_images, clock, files, logFile,
                   logWrites, textCalls, imageCalls, returned>>

\* main: except Exception as e: print(f"Fatal error: ...")
MainCatch ==
    /\ pc = "raising"
    /\ printed' = printed \cup {"fatal"}
    /\ pc' = "returned"
    /\ UNCHANGED <<events, outcomes, logOutcome, imageOutcome, variant, api_key, reference_paths, num_images, constructed, dirs, reference_images,
                   prompt_requirements, block, lastContents, i, image_prompt, image_path,
                   generated_images, clock, files, logFile, logWrites, textCalls,
                   imageCalls, returned>>

-----------------------------------------------------------------------------
(* The script test.py: module-level statements, no test of the key *)

\* what the first statements of the script may do: genai.configure raises,
\* os.makedirs raises, or the directory is there
ScriptSetupOutcomes == {"configure_raises", "makedirs_raises", "made"}

\* load_dotenv(); genai.configure(api_key=google_api_key); os.makedirs(output_dir)
ScriptSetup ==
    /\ pc = "script"
    /\ \E how \in ScriptSetupOutcomes :
         IF how = "made"
         THEN /\ dirs' = dirs \cup {OutputDir(variant)}
              /\ pc' = "script_read"
         ELSE /\ pc' = "raised"
              /\ UNCHANGED dirs
    /\ UNCHANGED <<events, outcomes, logOutcome, imageOutcome, variant, api_key, reference_paths, num_images, constructed, reference_images,
                   prompt_requirements, block, lastContents, i, image_prompt, image_path,
                   generated_images, clock, files, logFile, logWrites, textCalls,
                   imageCalls, returned, printed>>

\* with open(".../Brooks_1.png", "rb"): the read succeeds or raises out of the script
ScriptReadImage ==
    /\ pc = "script_read"
    /\ \E readable \in BOOLEAN : pc' = IF readable THEN "script_generate" ELSE "raised"
    /\ UNCHANGED <<events, outcomes, logOutcome, imageOutcome, variant, api_key, reference_paths, num_images, constructed, dirs, reference_images,
                   prompt_requirements, block, lastContents, i, image_prompt, image_path,
                   generated_images, clock, files, logFile, logWrites, textCalls,
                   imageCalls, returned, printed>>

\* model = genai.GenerativeModel(...), which may raise before any request;
\* response = model.generate_content([...]); print(response.text)
ScriptGenerate ==
    /\ pc = "script_generate"
    /\ \E model_made \in BOOLEAN :
         IF ~model_made
         THEN /\ pc' = "raised"
              /\ UNCHANGED <<textCalls, lastContents, printed>>
         ELSE /\ textCalls' = textCalls + 1
              /\ lastContents' = <<TextPart(<<"Describe this image.">>),
                                   ImagePart(<<"/home/ehwkang/DTS_folked/image/Brooks_1.png">>)>>
              /\ \E outcome \in TextOutcomes :
                   IF outcome.raises
                   THEN pc' = "raised" /\ UNCHANGED printed
                   ELSE pc' = "returned" /\ printed' = printed \cup {"response"}
    /\ UNCHANGED <<events, outcomes, logOutcome, imageOutcome, variant, api_key, reference_paths, num_images, constructed, dirs, reference_images,
                   prompt_requirements, block, i, image_prompt, image_path,
                   generated_images, clock, files, logFile, logWrites, imageCalls,
                   returned>>

-----------------------------------------------------------------------------
\* The operating environment ends the process (a signal, a KeyboardInterrupt,
\* which no except clause of the program catches).  It may do so between two
\* steps or inside one: the statements of the step that ran so far have had
\* their effect, the others have none.

\* ended inside main before the constructor: after the missing-key diagnostic,
\* after num_images is set, after reference_paths is set
KilledInMainEnv ==
    /\ pc = "main"
    /\ IF KeyMissing(api_key)
       THEN /\ \E said \in BOOLEAN :
                 printed' = IF said THEN printed \cup {"key_missing"} ELSE printed
            /\ UNCHANGED <<num_images, reference_paths>>
       ELSE /\ UNCHANGED printed
            /\ \/ UNCHANGED <<num_images, reference_paths>>
               \/ \E val \in NumEnvValues :
                    LET text == GetEnv(val, DefaultNumImages(variant)) IN
                    /\ IsNumeral(text)
                    /\ IntOf(text) <= MaxImages
                    /\ num_images' = IntOf(text)
                    /\ \/ UNCHANGED reference_paths
                       \/ \E ref1 \in RefEnvValues : \E ref2 \in RefEnvValues :
                            reference_paths' = ReferencePaths(variant, ref1, ref2)
    /\ UNCHANGED <<variant, api_key, constructed, dirs, reference_images,
                   prompt_requirements, block, lastContents, i, image_prompt,
                   image_path, generated_images, clock, files, logFile, logWrites,
                   textCalls, imageCalls, returned, outcomes, imageOutcome, logOutcome,
                   events>>

\* the diagnostics of the reference loading printed so far: none, the warnings
\* of the paths that did not load, or all of them
DiagnosticsSoFar(v, paths, loaded) ==
    {{}, LoadDiagnostics(v, paths, loaded) \ {"text_only"}, LoadDiagnostics(v, paths, loaded)}

\* ended inside the constructor or at the entry of generate_all_ads: before or
\* after os.makedirs, during the reference loading (test3 makes the directory
\* and loads before it constructs the clients, test2 makes the directory
\* last), or with the generator made and the loop not begun
KilledInConstruct ==
    /\ pc = "construct"
    /\ \E loaded \in LoadableSubsequences(reference_paths) :
         \/ UNCHANGED <<dirs, printed, reference_images, prompt_requirements, constructed>>
         \/ /\ dirs' = dirs \cup {OutputDir(variant)}
            /\ printed' \in {printed \cup said :
                               said \in DiagnosticsSoFar(variant, reference_paths, loaded)}
            /\ UNCHANGED <<reference_images, prompt_requirements, constructed>>
         \/ /\ dirs' = dirs \cup {OutputDir(variant)}
            /\ printed' = printed \cup LoadDiagnostics(variant, reference_paths, loaded)
            /\ reference_images' = loaded
            /\ prompt_requirements' = InitialRequirements(variant)
            /\ constructed' = TRUE
    /\ UNCHANGED <<variant, api_key, reference_paths, num_images, block, lastContents,
                   i, image_prompt, image_path, generated_images, clock, files, logFile,
                   logWrites, textCalls, imageCalls, returned, outcomes, imageOutcome,
                   logOutcome, events>>

\* ended inside generate_image_prompt: after the requirements block is
\* assembled, after the request is built, inside the call of the text model,
\* or in the except branch after its diagnostic
KilledInGenerateImagePrompt ==
    /\ pc = "prompt"
    /\ \E stage \in 0..4 :
         /\ block' = IF stage >= 1 THEN AssembleRequirementsBlock(prompt_requirements)
                     ELSE block
         /\ lastContents' = IF stage >= 2
                            THEN Contents(variant, reference_images, prompt_requirements, i)
                            ELSE lastContents
         /\ textCalls' = IF stage >= 3 THEN textCalls + 1 ELSE textCalls
         /\ printed' = IF stage >= 4 THEN printed \cup {"prompt_error"} ELSE printed
    /\ UNCHANGED <<variant, api_key, reference_paths, num_images, constructed, dirs,
                   reference_images, prompt_requirements, i, image_prompt, image_path,
                   generated_images, clock, files, logFile, logWrites, imageCalls,
                   returned, outcomes, imageOutcome, logOutcome, events>>

\* ended inside generate_image: inside the call of the image model, while the
\* image is saved (the file is there, whole or in part), or after the
\* diagnostic of an empty result or of an exception
KilledInGenerateImage ==
    /\ pc = "image"
    /\ \/ UNCHANGED <<imageCalls, events, files, printed>>
       \/ /\ imageCalls' = imageCalls + 1
          /\ events' = Append(events, Event("image_call", i, image_prompt, clock, 0))
          /\ \/ UNCHANGED <<files, printed>>
             \/ /\ files' = FilesAfter(files, variant, "saved", i)
                /\ UNCHANGED printed
             \/ /\ printed' \in {printed \cup {"no_images"}, printed \cup {"image_error"}}
                /\ UNCHANGED files
    /\ UNCHANGED <<variant, api_key, reference_paths, num_images, constructed, dirs,
                   reference_images, prompt_requirements, block, lastContents, i,
                   image_prompt, image_path, generated_images, clock, logFile,
                   logWrites, textCalls, returned, outcomes, imageOutcome, logOutcome>>

\* ended at the append: the item is not appended
KilledInAppendItem ==
    /\ pc = "append"
    /\ UNCHANGED <<variant, api_key, reference_paths, num_images, constructed, dirs,
                   reference_images, prompt_requirements, block, lastContents, i,
                   image_prompt, image_path, generated_images, clock, files, logFile,
                   logWrites, textCalls, imageCalls, returned, printed, outcomes,
                   imageOutcome, logOutcome, events>>

\* ended inside time.sleep(3): part of the pause has passed
KilledInSleep ==
    /\ pc = "sleep"
    /\ \E passed \in 0..SleepSeconds : clock' = clock + passed
    /\ UNCHANGED <<variant, api_key, reference_paths, num_images, constructed, dirs,
                   reference_images, prompt_requirements, block, lastContents, i,
                   image_prompt, image_path, generated_images, files, logFile,
                   logWrites, textCalls, imageCalls, returned, printed, outcomes,
                   imageOutcome, logOutcome, events>>

\* ended inside _save_generation_log: after the call began, after open() made
\* the file empty, after json.dump wrote the document
KilledInSaveGenerationLog ==
    /\ pc = "save"
    /\ \E stage \in 0..3 :
         /\ logWrites' = IF stage >= 1 THEN logWrites + 1 ELSE logWrites
         /\ logFile' = IF stage = 2 THEN LogPartial
                       ELSE IF stage = 3 THEN LogAfter(logFile, "written", generated_images, clock)
                       ELSE logFile
         /\ logOutcome' = IF stage = 3 THEN "written" ELSE logOutcome
    /\ UNCHANGED <<variant, api_key, reference_paths, num_images, constructed, dirs,
                   reference_images, prompt_requirements, block, lastContents, i,
                   image_prompt, image_path, generated_images, clock, files, textCalls,
                   imageCalls, returned, printed, outcomes, imageOutcome, events>>

\* ended at the end of generate_all_ads: before its return, or after it with
\* main not yet left
KilledInReturnAll ==
    /\ pc = "return"
    /\ returned' \in {returned, ReturnValue(generated_images)}
    /\ UNCHANGED <<variant, api_key, reference_paths, num_images, constructed, dirs,
                   reference_images, prompt_requirements, block, lastContents, i,
                   image_prompt, image_path, generated_images, clock, files, logFile,
                   logWrites, textCalls, imageCalls, printed, outcomes, imageOutcome,
                   logOutcome, events>>

\* ended in the except clause of main: before its print, or after the fatal
\* diagnostic with main not yet left
KilledInMainCatch ==
    /\ pc = "raising"
    /\ printed' \in {printed, printed \cup {"fatal"}}
    /\ UNCHANGED <<variant, api_key, reference_paths, num_images, constructed, dirs,
                   reference_images, prompt_requirements, block, lastContents, i,
                   image_prompt, image_path, generated_images, clock, files, logFile,
                   logWrites, textCalls, imageCalls, returned, outcomes, imageOutcome,
                   logOutcome, events>>

\* ended at a statement that changes nothing before it completes: the
\* statements of the script before its request
KilledElsewhere ==
    /\ pc \in {"script", "script_read"}
    /\ UNCHANGED <<variant, api_key, reference_paths, num_images, constructed, dirs,
                   reference_images, prompt_requirements, block, lastContents, i,
                   image_prompt, image_path, generated_images, clock, files, logFile,
                   logWrites, textCalls, imageCalls, returned, printed, outcomes,
                   imageOutcome, logOutcome, events>>

\* ended inside the script's request: before it, inside the call, or after
\* print(response.text) with the script not yet left
KilledInScriptGenerate ==
    /\ pc = "script_generate"
    /\ \/ UNCHANGED <<textCalls, lastContents, printed>>
       \/ /\ textCalls' = textCalls + 1
          /\ lastContents' = <<TextPart(<<"Describe this image.">>),
                               ImagePart(<<"/home/ehwkang/DTS_folked/image/Brooks_1.png">>)>>
          /\ printed' \in {printed, printed \cup {"response"}}
    /\ UNCHANGED <<variant, api_key, reference_paths, num_images, constructed, dirs,
                   reference_images, prompt_requirements, block, i, image_prompt,
                   image_path, generated_images, clock, files, logFile, logWrites,
                   imageCalls, returned, outcomes, imageOutcome, logOutcome,
                   events>>

Abort ==
    /\ pc \in Running
    /\ pc' = "killed"
    /\ \/ KilledInMainEnv
       \/ KilledInConstruct
       \/ KilledInGenerateImagePrompt
       \/ KilledInGenerateImage
       \/ KilledInAppendItem
       \/ KilledInSleep
       \/ KilledInSaveGenerationLog
       \/ KilledInReturnAll
       \/ KilledInMainCatch
       \/ KilledElsewhere
       \/ KilledInScriptGenerate

\* the steps of the program itself
Step ==
    \/ MainEnv
    \/ Construct
    \/ GenerateImagePrompt
    \/ GenerateImage
    \/ AppendItem
    \/ Sleep
    \/ SaveGenerationLog
    \/ ReturnAll
    \/ MainCatch
    \/ ScriptSetup
    \/ ScriptReadImage
    \/ ScriptGenerate

Next == Step \/ Abort

Spec == Init /\ [][Next]_vars

\* the run left alone by its environment: every external call returns or raises,
\* and the single control thread keeps taking its next step
FairSpec == Init /\ [][Step]_vars /\ WF_vars(Step)

-----------------------------------------------------------------------------
(* _assemble_requirements_block on its own: prompt_requirements is a list of  *)
(* up to MaxReqs entries, the entries of the programs' own lists in several   *)
(* orders, with and without a line feed inside an entry                       *)

\* the lists the two programs construct
RequirementBases == {InitialRequirements("test3"), InitialRequirements("test2")}

\* an entry that holds a line feed
RequirementWithLineFeed == <<"b", LF, "c">>

\* k entries of a list, taken in a cycle from the entry after the first s
Cycled(base, s, k) == [p \in 1..k |-> base[((s + p - 1) % Len(base)) + 1]]

\* the list with its entries a and a + 1 exchanged; a = 0 exchanges none
Exchanged(list, a) ==
    IF a = 0 THEN list
    ELSE [p \in 1..Len(list) |-> IF p = a THEN list[a + 1]
                                 ELSE IF p = a + 1 THEN list[a]
                                 ELSE list[p]]

\* the list with entry q replaced by the entry holding a line feed; q = 0
\* replaces none
WithLineFeedAt(list, q) ==
    IF q = 0 THEN list
    ELSE [p \in 1..Len(list) |-> IF p = q THEN RequirementWithLineFeed ELSE list[p]]

\* the entries of the lists explored
RequirementTexts ==
    UNION {{base[p] : p \in 1..Len(base)} : base \in RequirementBases}
    \cup {RequirementWithLineFeed}

\* the lists explored, of up to n entries
RequirementLists(n) ==
    UNION {UNION {UNION {UNION {
        {WithLineFeedAt(Exchanged(Cycled(base, s, k), a), q) : q \in 0..k}
        : a \in 0..(IF k = 0 THEN 0 ELSE k - 1)}
        : s \in 0..(Len(base) - 1)}
        : k \in 0..n}
        : base \in RequirementBases}

InitBlock ==
    /\ variant = "test3"
    /\ api_key = TRUE
    /\ pc = "assemble"
    /\ prompt_requirements \in RequirementLists(MaxReqs)
    /\ InitCommon

\* block = self._assemble_requirements_block()
AssembleBlock ==
    /\ pc = "assemble"
    /\ block' = AssembleRequirementsBlock(prompt_requirements)
    /\ pc' = "assembled"
    /\ UNCHANGED <<events, outcomes, logOutcome, imageOutcome, variant, api_key, reference_paths, num_images, constructed, dirs,
                   reference_images, prompt_requirements, lastContents, i, image_prompt,
                   image_path, generated_images, clock, files, logFile, logWrites,
                   textCalls, imageCalls, returned, printed>>

SpecBlock == InitBlock /\ [][AssembleBlock]_vars

-----------------------------------------------------------------------------
(* One iteration of generate_all_ads at any index up to MaxIndex: the run of   *)
(* MaxIndex images stands at the loop test of iteration n, every earlier text  *)
(* call having raised and every earlier image call having ended the same way   *)

\* what every earlier image call did
EarlierImageOutcomes == {"saved", "raise_call"}

\* the item of an earlier iteration p
EarlierItem(v, p, how) ==
    NewItem(p, FallbackPrompt(v), ImageResult(v, how, p), SleepSeconds * (p - 1))

\* the history entry k of the earlier iterations
EarlierEvent(v, k) ==
    LET idx == ((k - 1) \div 4) + 1
        pos == ((k - 1) % 4) + 1
        t == SleepSeconds * (idx - 1)
    IN IF pos = 1 THEN Event("prompt_call", idx, FallbackPrompt(v), t, 0)
       ELSE IF pos = 2 THEN Event("image_call", idx, FallbackPrompt(v), t, 0)
       ELSE IF pos = 3 THEN Event("append", idx, FallbackPrompt(v), t, 0)
       ELSE Event("sleep", idx, <<>>, t, SleepSeconds)

\* the state of the run at the loop test of iteration n
AtIteration(n, how) ==
    /\ api_key = TRUE
    /\ pc = "prompt"
    /\ num_images = MaxIndex
    /\ reference_paths = ReferencePaths(variant, Unset, Unset)
    /\ constructed = TRUE
    /\ dirs = {OutputDir(variant)}
    /\ reference_images = reference_paths
    /\ prompt_requirements = InitialRequirements(variant)
    /\ block = IF n = 1 THEN <<>>
               ELSE AssembleRequirementsBlock(InitialRequirements(variant))
    /\ lastContents = IF n = 1 THEN <<>>
                      ELSE Contents(variant, ReferencePaths(variant, Unset, Unset),
                                    InitialRequirements(variant), n - 1)
    /\ i = n
    /\ image_prompt = IF n = 1 THEN <<>> ELSE FallbackPrompt(variant)
    /\ image_path = IF n = 1 THEN PyNone ELSE ImageResult(variant, how, n - 1)
    /\ generated_images = [p \in 1..(n - 1) |-> EarlierItem(variant, p, how)]
    /\ clock = SleepSeconds * (n - 1)
    /\ files = UNION {FilesAfter({}, variant, how, p) : p \in 1..(n - 1)}
    /\ logFile = LogAbsent
    /\ logWrites = 0
    /\ textCalls = n - 1
    /\ imageCalls = n - 1
    /\ returned = NoReturn
    /\ printed = IF n = 1 THEN {}
                 ELSE {"prompt_error"}
                      \cup (IF how = "raise_call" THEN {"image_error"} ELSE {})
    /\ outcomes = [p \in 1..(n - 1) |-> [text |-> "raised", image |-> HowEnded(how)]]
    /\ imageOutcome = "none"
    /\ logOutcome = "none"
    /\ events = [k \in 1..(4 * (n - 1)) |-> EarlierEvent(variant, k)]

InitPath ==
    /\ variant \in {"test3", "test2"}
    /\ \E n \in 1..MaxIndex : \E how \in EarlierImageOutcomes : AtIteration(n, how)

\* iteration n up to its append
NextPath == GenerateImagePrompt \/ GenerateImage \/ AppendItem

SpecPath == InitPath /\ [][NextPath]_vars

-----------------------------------------------------------------------------
(* Properties *)

ImageFailures == {"empty", "raised"}

\* the Log Writer has been called with generated_images
LogWriterCalled == logWrites >= 1

\* C1: once generate_all_ads(N), N >= 1, has handed its list to the Log Writer,
\* the list has exactly N entries, entry p carries image_number p, and an entry
\* whose image generation did not save a file is present with a null image_path.
C1_ImagesNumberedOneToN ==
    (LogWriterCalled /\ num_images >= 1) =>
        /\ Len(generated_images) = num_images
        /\ \A p \in 1..Len(generated_images) :
             /\ generated_images[p].image_number = PyInt(p)
             /\ outcomes[p].image \in ImageFailures
                  => generated_images[p].image_path = PyNone

\* a run of several items with a failed item before a saved one reaches the log write
C1_Witness ==
    /\ LogWriterCalled
    /\ num_images >= 2
    /\ outcomes[1].image = "raised"
    /\ outcomes[1].text = "raised"
    /\ outcomes[2].image = "saved"

\* C2: when the text call raises for item i, nothing propagates: the prompt handed
\* to generate_image and the prompt recorded for item i are the fallback string,
\* and the run still appends every later item before the log write.
C2_PromptFailureGivesFallback ==
    \A p \in 1..Len(outcomes) :
        outcomes[p].text = "raised" =>
            /\ pc \notin {"raising", "raised"} \/ logOutcome # "none"
            /\ (p = i /\ pc = "image") => image_prompt = FallbackPrompt(variant)
            /\ p <= Len(generated_images)
                 => generated_images[p].prompt = PyStr(FallbackPrompt(variant))
            /\ LogWriterCalled => Len(generated_images) = num_images

\* the first text call raised and the item after it has been appended
C2_Witness ==
    /\ Len(generated_images) >= 2
    /\ outcomes[1].text = "raised"
    /\ outcomes[2].text = "returned"

\* C3: when the image call returns an empty or missing result for item i,
\* generate_image returns None, no image file is written for index i, and the
\* campaign log holds an entry for i whose image_path is null.
C3_EmptyResultGivesNullPath ==
    \A p \in 1..Len(outcomes) :
        outcomes[p].image = "empty" =>
            /\ FilePath(variant, p) \notin files
            /\ (p = i /\ pc = "append") => image_path = PyNone
            /\ p <= Len(generated_images) => generated_images[p].image_path = PyNone
            /\ logFile.status = "complete"
                 => /\ p <= Len(logFile.doc.images)
                    /\ logFile.doc.images[p].image_path = <<"null">>
                    /\ logFile.doc.images[p].image_number = Str(p)

\* a complete log of a run whose first image result was empty and second was saved
C3_Witness ==
    /\ logFile.status = "complete"
    /\ Len(outcomes) >= 2
    /\ outcomes[1].image = "empty"
    /\ outcomes[2].image = "saved"

\* the request text carries the reference-image style-guidance block
HasStyleBlock(contents) ==
    \E q \in 1..Len(contents) :
        /\ contents[q].kind = "text"
        /\ \E r \in 1..Len(contents[q].v) : contents[q].v[r] = VisualInstruction[1]

\* C4: every request assembled by generate_image_prompt carries the style-guidance
\* block exactly when at least one reference image was loaded; with none loaded
\* the request is text-only and carries no such block.
C4_StyleBlockOnlyWithReferences ==
    (constructed /\ lastContents # <<>>) =>
        (HasStyleBlock(lastContents) <=> reference_images # <<>>)


\* the lines of a text: the pieces between line feeds (str.splitlines)
RECURSIVE SplitLines(_)
SplitLines(text) ==
    IF text = <<>> THEN <<>>
    ELSE IF \E q \in 1..Len(text) : text[q] = LF
         THEN LET q == CHOOSE q \in 1..Len(text) :
                          text[q] = LF /\ \A r \in 1..(q - 1) : text[r] # LF
              IN <<SubSeq(text, 1, q - 1)>> \o SplitLines(SubSeq(text, q + 1, Len(text)))
         ELSE <<text>>

\* the decimal numerals of the positions 1..15, written out
Numerals == << <<"1">>, <<"2">>, <<"3">>, <<"4">>, <<"5">>, <<"6">>, <<"7">>, <<"8">>,
               <<"9">>, <<"1", "0">>, <<"1", "1">>, <<"1", "2">>, <<"1", "3">>,
               <<"1", "4">>, <<"1", "5">> >>

\* the block has one line per requirement: line p is "p. " and then requirement p
BlockIsNumberedLines(reqs, text) ==
    LET lines == SplitLines(text) IN
    /\ Len(lines) = Len(reqs)
    /\ \A p \in 1..Len(reqs) : lines[p] = Numerals[p] \o <<".", SPACE>> \o reqs[p]

HasLineFeed(text) == \E q \in 1..Len(text) : text[q] = LF

\* C5 as stated: for every requirement list of length k the block is exactly k
\* lines, line p being "p. " followed by the p-th requirement.
C5_BlockHasKLines ==
    pc = "assembled" => BlockIsNumberedLines(prompt_requirements, block)

\* C5 amended: the same, for requirement lists whose entries hold no line feed.
C5_BlockHasKLinesWithoutLineFeeds ==
    (pc = "assembled" /\ \A p \in 1..Len(prompt_requirements) :
                            ~HasLineFeed(prompt_requirements[p]))
        => BlockIsNumberedLines(prompt_requirements, block)

\* a block assembled from the thirteen requirements of test3 in another order:
\* no line feeds, no two entries alike, so a line under a wrong number shows
C5_Witness ==
    /\ pc = "assembled"
    /\ Len(prompt_requirements) = Len(InitialRequirements("test3"))
    /\ prompt_requirements # InitialRequirements("test3")
    /\ \A p \in 1..Len(prompt_requirements) : ~HasLineFeed(prompt_requirements[p])
    /\ \A p, q \in 1..Len(prompt_requirements) :
          p # q => prompt_requirements[p] # prompt_requirements[q]
    /\ block # <<>>


\* C6: the Log Writer is called at most once in a run, only after all N items were
\* appended (none when N is below 1) and with the whole list in accumulation
\* order; until that call the log file is untouched, so a run that stops earlier
\* leaves no log; a run that returns its list has called it exactly once.
C6_LogWrittenOnceAtEnd ==
    /\ logWrites <= 1
    /\ logWrites = 0 => (logFile = LogAbsent /\ logOutcome = "none" /\ ~returned.set)
    /\ logWrites = 1 =>
          /\ Len(generated_images) = RangeLen(num_images)
          /\ pc \in {"return", "raising", "returned", "killed"}
    /\ logFile.status = "complete" =>
          /\ Len(logFile.doc.images) = RangeLen(num_images)
          /\ \A p \in 1..num_images : logFile.doc.images[p] = DumpItem(generated_images[p])
    /\ (pc = "killed" /\ Len(generated_images) < num_images) => logFile = LogAbsent

\* a run of several items that wrote its log, and nothing was written before
C6_Witness ==
    /\ logFile.status = "complete"
    /\ logWrites = 1
    /\ num_images >= 2
    /\ Len(logFile.doc.images) = num_images

\* C7: with the API credential absent the run halts before any generation attempt:
\* no text or image call, no generator, no directory, image or log file, nothing
\* raised; the run ends having printed only the missing-key diagnostic.
C7_MissingKeyHaltsWithoutEffects ==
    ~api_key =>
        /\ textCalls = 0
        /\ imageCalls = 0
        /\ ~constructed
        /\ dirs = {}
        /\ files = {}
        /\ logFile = LogAbsent
        /\ pc \in {"main", "script", "returned", "killed"}
        /\ pc = "returned" => printed = {"key_missing"}

(* Reading the log back: json.load, value by value *)

\* the value of a hexadecimal digit
HexValue(c) == (CHOOSE k \in 1..Len(HexDigits) : HexDigits[k] = c) - 1

\* the character an escape letter stands for
Escaped(c) == IF c = "n" THEN LF
              ELSE IF c = "r" THEN CR
              ELSE IF c = "t" THEN TAB
              ELSE IF c = "f" THEN FF
              ELSE IF c = "b" THEN BACKSPACE
              ELSE c

RECURSIVE Unescape(_)
Unescape(text) ==
    IF text = <<>> THEN <<>>
    ELSE IF Head(text) = BACKSLASH /\ Len(text) >= 6 /\ text[2] = "u"
         THEN <<ControlChars[16 * HexValue(text[5]) + HexValue(text[6]) + 1]>>
              \o Unescape(SubSeq(text, 7, Len(text)))
    ELSE IF Head(text) = BACKSLASH /\ Len(text) >= 2
         THEN <<Escaped(text[2])>> \o Unescape(SubSeq(text, 3, Len(text)))
         ELSE <<Head(text)>> \o Unescape(Tail(text))

\* the value of a numeral of the digits 0-9
RECURSIVE NumeralValue(_)
NumeralValue(text) ==
    IF text = <<>> THEN 0
    ELSE 10 * NumeralValue(SubSeq(text, 1, Len(text) - 1))
         + (CHOOSE d \in 1..10 : Digits[d] = text[Len(text)]) - 1

\* json.loads of a scalar
JsonLoads(text) ==
    IF text = <<"null">> THEN PyNone
    ELSE IF Head(text) = QUOTE THEN PyStr(Unescape(SubSeq(text, 2, Len(text) - 1)))
    ELSE PyInt(NumeralValue(text))

\* one entry of images as json.load returns it
LoadItem(enc) == [image_number |-> JsonLoads(enc.image_number),
                  prompt       |-> JsonLoads(enc.prompt),
                  image_path   |-> JsonLoads(enc.image_path),
                  generated_at |-> JsonLoads(enc.generated_at)]

\* json.load of generation_log.json
LoadLog(doc) ==
    [campaign     |-> JsonLoads(doc.campaign),
     generated_at |-> JsonLoads(doc.generated_at),
     total_images |-> JsonLoads(doc.total_images),
     images       |-> [p \in 1..Len(doc.images) |-> LoadItem(doc.images[p])]]

\* C8: the log written by _save_generation_log, read back, has total_images equal
\* to the length of its images list, and its entries are, in order, exactly the
\* image_number, prompt, image_path (or null) and generated_at produced for each item.
C8_LogRoundTrip ==
    logFile.status = "complete" =>
        LET log == LoadLog(logFile.doc) IN
        /\ log.total_images = PyInt(Len(log.images))
        /\ Len(log.images) = Len(generated_images)
        /\ \A p \in 1..Len(generated_images) :
             /\ log.images[p] = generated_images[p]
             /\ log.images[p].image_number = PyInt(p)

\* a log read back with a null path, a saved path and a prompt that needs escaping
C8_Witness ==
    /\ logFile.status = "complete"
    /\ Len(generated_images) >= 2
    /\ generated_images[1].image_path = PyNone
    /\ generated_images[2].image_path # PyNone
    /\ \E q \in 1..Len(generated_images[1].prompt.s) :
           generated_images[1].prompt.s[q] \in {QUOTE, BACKSLASH, LF}
    /\ \E q \in 1..Len(generated_images[1].prompt.s) :
           generated_images[1].prompt.s[q] \in {TAB, CR, BACKSPACE, "U+001B"}

\* the run is over, with the full list returned or the log write reported fatal
RunEnded ==
    /\ pc = "returned"
    /\ logWrites = 1
    /\ Len(generated_images) = RangeLen(num_images)
    /\ \/ returned = ReturnValue(generated_images) /\ logOutcome = "written"
       \/ "fatal" \in printed /\ logOutcome \in {"open_fails", "dump_fails"}

\* C9: no item's failure aborts the campaign.  A thrown failure of the image call,
\* of decoding or of saving makes generate_image return None, nothing but the log
\* write ever raises out of generate_all_ads, and a run left to itself goes through
\* all N iterations (none when N is below 1) to the log write and returns the
\* whole list (unless the log write itself fails).
C9_NoItemFailureAborts ==
    /\ [](\A p \in 1..Len(generated_images) :
             outcomes[p].image = "raised" => generated_images[p].image_path = PyNone)
    /\ []((imageOutcome \in ThrownImageFailures /\ pc \in {"append", "sleep"})
             => /\ image_path = PyNone
                /\ outcomes[i].image = "raised")
    /\ [](pc = "raising" => logOutcome \in {"open_fails", "dump_fails"})
    /\ [](pc = "raised" => ~constructed \/ variant = "test")
    /\ (constructed ~> RunEnded)

\* both services threw for every item of a run, the last image call while the
\* returned image was saved, and the last item is appended all the same
C9_Witness ==
    /\ pc = "sleep"
    /\ num_images >= 2
    /\ Len(generated_images) = num_images
    /\ outcomes[1].text = "raised"
    /\ outcomes[1].image = "raised"
    /\ outcomes[2].text = "raised"
    /\ outcomes[2].image = "raised"
    /\ imageOutcome = "raise_save"

\* C10: a failing log write is the one failure that leaves generate_all_ads: no
\* list is returned, main catches it and prints the fatal diagnostic, the write
\* is not tried again and no complete log of the items exists.
C10_LogFailureIsFatal ==
    /\ logOutcome \in {"open_fails", "dump_fails"} =>
          /\ pc \in {"raising", "returned", "killed"}
          /\ ~returned.set
          /\ logWrites = 1
          /\ logFile.status # "complete"
          /\ pc = "returned" => "fatal" \in printed
    /\ (pc = "raising" \/ "fatal" \in printed) => logOutcome \in {"open_fails", "dump_fails"}

\* main has returned after a log write that failed with items in memory
C10_Witness ==
    /\ pc = "returned"
    /\ logOutcome = "dump_fails"
    /\ "fatal" \in printed
    /\ Len(generated_images) >= 2
    /\ generated_images[2].image_path # PyNone


\* the prompt calls begun and not ended: none while the run goes on, at most
\* one, for the next index, in a run ended from outside
CallsCutShort == IF pc = "killed" THEN {0, 1} ELSE {0}

\* the steps of one iteration, in order
EventKinds == <<"prompt_call", "image_call", "append", "sleep">>

\* the history is a run of whole iterations 1, 2, ... and the begun part of the
\* next: one prompt call for the index, one image call with the prompt that call
\* returned and the same index, the append of the item with that prompt, a pause
\* of 3 units; a prompt call comes no sooner than 3 units after the pause before
\* it began; no service is called a second time for an index.
IterationsAreSequential ==
    /\ \A k \in 1..Len(events) :
         LET e == events[k]
             idx == ((k - 1) \div 4) + 1
             pos == ((k - 1) % 4) + 1
         IN /\ e.kind = EventKinds[pos]
            /\ e.index = idx
            /\ pos = 2 => e.prompt = events[k - 1].prompt
            /\ pos = 3 => /\ e.prompt = events[k - 1].prompt
                          /\ idx <= Len(generated_images)
                          /\ generated_images[idx].image_number = PyInt(idx)
                          /\ generated_images[idx].prompt = PyStr(e.prompt)
            /\ pos = 4 => e.duration = 3
            /\ (pos = 1 /\ k > 1) => /\ events[k - 1].kind = "sleep"
                                     /\ e.at >= events[k - 1].at + 3
    /\ variant # "test" =>
         /\ textCalls - ((Len(events) + 3) \div 4) \in CallsCutShort
         /\ imageCalls = (Len(events) + 2) \div 4
    /\ Len(generated_images) = (Len(events) + 1) \div 4

\* the loop of generate_all_ads is over
LoopOver == constructed /\ pc \in {"save", "return", "raising", "returned"}

\* C11 as stated: iterations are sequential and retry-free (prompt call, image
\* call with the returned prompt, append, 3-unit delay, nothing for i+1 before
\* that), and the delay is a pause before a next iteration.
C11_DelayOnlyBeforeNextIteration ==
    /\ IterationsAreSequential
    /\ \A k \in 1..Len(events) :
         events[k].kind = "sleep" => events[k].index < num_images

\* C11 amended: iterations are sequential and retry-free as stated, and the
\* 3-unit delay follows every append, the last one included, where it comes
\* before the log write and not before another iteration.
C11_SequentialWithDelayAfterEveryItem ==
    /\ IterationsAreSequential
    /\ pc = "sleep" => events[Len(events)].kind = "append"
    /\ LoopOver =>
         /\ Len(events) = 4 * RangeLen(num_images)
         /\ clock = 3 * RangeLen(num_images)
         /\ num_images >= 1 => /\ events[Len(events)].kind = "sleep"
                               /\ events[Len(events)].index = num_images

\* a run of two iterations has ended, the second one followed by its pause
C11_Witness ==
    /\ pc = "returned"
    /\ num_images = 2
    /\ Len(events) = 8
    /\ events[5].kind = "prompt_call"
    /\ events[5].at = 3
    /\ events[8].kind = "sleep"
    /\ events[8].index = 2


\* the numeral is idx padded with zeros to two digits: it reads back as idx, has
\* at least two digits, and more than two only when idx needs them
IsPaddedIndex(numeral, idx) ==
    /\ numeral # <<>>
    /\ \A q \in 1..Len(numeral) : \E d \in 1..10 : Digits[d] = numeral[q]
    /\ NumeralValue(numeral) = idx
    /\ Len(numeral) >= 2
    /\ Len(numeral) > 2 => numeral[1] # "0"

\* path is <output_dir>/brooks_glycerin_22_ad_<idx padded to 2 digits>.png
IsImagePathOf(path, idx) ==
    /\ Len(path) >= 6
    /\ path[1] = "brooks_glycerin_22_campaign"
    /\ path[2] = "/"
    /\ path[3] = "brooks_glycerin_22_ad_"
    /\ path[Len(path)] = ".png"
    /\ IsPaddedIndex(SubSeq(path, 4, Len(path) - 1), idx)

\* C12: for every index i up to the default of 100, an item whose image
\* generation saved a file records exactly the path
\* <output_dir>/brooks_glycerin_22_ad_<i padded to 2 digits>.png of its own
\* image_number, that file was written, and no non-null image_path carries the
\* index of another item.
C12_PathNamesOwnIndex ==
    /\ (pc = "append" /\ outcomes[i].image = "saved") =>
          /\ image_path.t = "str"
          /\ IsImagePathOf(image_path.s, i)
          /\ image_path.s \in files
    /\ \A p \in 1..Len(generated_images) :
          LET item == generated_images[p] IN
          /\ outcomes[p].image = "saved" =>
                /\ item.image_path.t = "str"
                /\ item.image_path.s \in files
          /\ item.image_path # PyNone =>
                /\ IsImagePathOf(item.image_path.s, item.image_number.n)
                /\ item.image_number.n = p
    /\ \A path \in files : \E p \in 1..Len(outcomes) :
          outcomes[p].image = "saved" /\ IsImagePathOf(path, p)

\* item 100 was saved and appended after earlier saved items: its name has the
\* three digits of 100, the first item's name the two digits 01
C12_Witness ==
    /\ pc = "sleep"
    /\ Len(generated_images) = 100
    /\ outcomes[100].image = "saved"
    /\ generated_images[100].image_path.s =
          <<"brooks_glycerin_22_campaign", "/", "brooks_glycerin_22_ad_", "1", "0", "0", ".png">>
    /\ generated_images[1].image_path.s =
          <<"brooks_glycerin_22_campaign", "/", "brooks_glycerin_22_ad_", "0", "1", ".png">>

=============================================================================
